---- MODULE Spec2Model ----
(***************************************************************************)
(* Model of the bookmarks API: accounts, sign-up / sign-in, the profile    *)
(* routes and the bookmark service (src/src/bookmark/bookmark.service.ts), *)
(* with the auth and user services of src/unnamed/part_003 and the         *)
(* end-to-end scenario of src/unnamed/part_000.                            *)
(*                                                                         *)
(* An action is one HTTP request handled to completion: it sets `request`  *)
(* to what the client sent and `response` to what the service returned or  *)
(* threw.  The exceptions are Tick (the clock advances), Extract (the      *)
(* identity extractor applied on its own) and BeginEdit / CommitEdit (an   *)
(* edit received, and its database statement run).  createdAt / updatedAt  *)
(* are left out of the rows.                                               *)
(***************************************************************************)
EXTENDS Integers, Sequences, FiniteSets, TLC

VARIABLES
  users,           \* the user table: users[id] is the row of account id
  bookmarks,       \* the bookmark table: id of every stored row |-> row
  nextBookmarkId,  \* the next id the bookmark table hands out
  userAt,          \* the token the client keeps (stores('userAt', 'access_token'))
  request,         \* the last request sent
  response,        \* what the service returned or threw for it
  signedUp,        \* history: the sign-ups that succeeded
  ledger,          \* history: for every bookmark id created and not yet deleted,
                   \* who created it and what was last written to it
  now,             \* the server clock, in minutes
  inflight         \* the edit requests received and not yet answered, by connection

vars == <<users, bookmarks, nextBookmarkId, userAt, request, response, signedUp, ledger,
          now, inflight>>

(* ------------------------------ bounds -------------------------------- *)
MaxUsers == 2
MaxBookmarks == 2
MaxTime == 20

(* ------------------------------ inputs -------------------------------- *)
Null == "null"
Emails == {"", "test@test.com", "b@test.com"}
Passwords == {"", "123456", "654321"}
SignupPasswords == {"", "123456"}
Salts == {"s1"}
FirstNames == {"Test"}
LastNames == {"User"}
Titles == {"Test bookmark", "Updated test bookmark"}
Descriptions == {"Test description"}
Links == {"https://test.com"}
UserIds == 1..MaxUsers
BookmarkIds == 1..MaxBookmarks

(* functions with the given keys: the JSON bodies with optional fields *)
Pick(f, keys) == [k \in (DOMAIN f) \cap keys |-> f[k]]
Has(f, k) == k \in DOMAIN f

(* ------------------------- service outcomes --------------------------- *)
Return(v) == [kind |-> "return", value |-> v]
ReturnNull == [kind |-> "null"]
ReturnVoid == [kind |-> "void"]
Throw(e, s, m) == [kind |-> "throw", error |-> e, status |-> s, message |-> m]

BadRequestException == Throw("BadRequestException", 400, <<"Bad Request">>)
ForbiddenException(m) == Throw("ForbiddenException", 403, m)
NotFoundException(m) == Throw("NotFoundException", 404, m)
UnauthorizedException == Throw("UnauthorizedException", 401, <<"Unauthorized">>)
(* an error that is no HttpException: the framework answers 500 *)
PrismaClientKnownRequestError(code) ==
  Throw("PrismaClientKnownRequestError", 500, <<code>>)
DuplicateEmailException(email) ==
  Throw("DuplicateEmailException", 500, <<"Email", email, "is already taken">>)

(* ------------------------- credential hasher -------------------------- *)
hash(password, salt) == [algo |-> "argon2", salt |-> salt, digest |-> <<salt, password>>]
verify(h, password) == h.digest = <<h.salt, password>>

(* --------------------------- token service ---------------------------- *)
NoToken == [kind |-> "none"]
(* expiresIn: the default '15m', in minutes *)
JWT_ACCESS_EXPIRES_IN == 15
(* signAsync stamps the token with the time of signing and its expiry *)
generateAccessToken_offByOne(userId, email) ==
  [kind |-> "jwt", sub |-> userId - 1, email |-> email, secret |-> "JWT_ACCESS_SECRET",
   iat |-> now, exp |-> now + JWT_ACCESS_EXPIRES_IN]
generateAccessToken_neverExpiring(userId, email) ==
  [kind |-> "jwt", sub |-> userId, email |-> email, secret |-> "JWT_ACCESS_SECRET",
   iat |-> now, exp |-> now + JWT_ACCESS_EXPIRES_IN + MaxTime]
generateAccessToken(userId, email) ==
  [kind |-> "jwt", sub |-> userId, email |-> email, secret |-> "JWT_ACCESS_SECRET",
   iat |-> now, exp |-> now + JWT_ACCESS_EXPIRES_IN]
ForgedToken ==
  [kind |-> "jwt", sub |-> 1, email |-> "test@test.com", secret |-> "not the secret",
   iat |-> 0, exp |-> MaxTime + 1]
(* a token of account 1 that was signed before the clock started and is past expiry *)
ExpiredToken ==
  [kind |-> "jwt", sub |-> 1, email |-> "test@test.com", secret |-> "JWT_ACCESS_SECRET",
   iat |-> 0 - JWT_ACCESS_EXPIRES_IN - 1, exp |-> 0 - 1]
MalformedToken == [kind |-> "garbage"]
(* verify(token) -> claims | AuthFailure *)
verifyOutcome(token) ==
  IF token.kind = "none" THEN "Unauthenticated"
  ELSE IF token.kind # "jwt" THEN "Malformed"
  ELSE IF token.secret # "JWT_ACCESS_SECRET" THEN "InvalidSignature"
  ELSE IF now > token.exp THEN "Expired"
  ELSE "claims"
verifyToken(token) == verifyOutcome(token) = "claims"
(* the identity the guard puts on the request: the claims of the token *)
Identity(token) == [id |-> token.sub, email |-> token.email]
(* the request as the handler sees it: `user` is set only by a passed guard *)
Guarded_unverified(token) ==
  IF token.kind = "jwt" THEN [user |-> Identity(token)] ELSE <<>>
Guarded(token) ==
  IF verifyToken(token) THEN [user |-> Identity(token)] ELSE <<>>

(* -------------------------- identity extractor ------------------------ *)
GetUser_withoutNullCheck(data, req) ==
  IF ~Has(req, "user") THEN (IF data # "" THEN "TypeError" ELSE Null)
  ELSE IF data # "" THEN (IF Has(req.user, data) THEN req.user[data] ELSE "undefined")
  ELSE req.user
(* `data` is "" when the decorator is given no claim name *)
GetUser(data, req) ==
  IF ~Has(req, "user") THEN Null
  ELSE IF data # "" THEN (IF Has(req.user, data) THEN req.user[data] ELSE "undefined")
  ELSE req.user

(* --------------------------- user repository -------------------------- *)
EmailTaken_noIndex(us, email, exceptId) == FALSE
EmailTaken(us, email, exceptId) ==
  \E i \in 1..Len(us) : i # exceptId /\ us[i].email = email

findByEmail(us, email) ==
  IF \E i \in 1..Len(us) : us[i].email = email
  THEN CHOOSE i \in 1..Len(us) : us[i].email = email
  ELSE 0

toEntity(prismaUser) ==
  [id |-> prismaUser.id, email |-> prismaUser.email, hash |-> prismaUser.hash,
   firstName |-> prismaUser.firstName, lastName |-> prismaUser.lastName]

NewUser(id, email, h) ==
  [id |-> id, email |-> email, hash |-> h, firstName |-> Null, lastName |-> Null]

(* ------------------------------ validation ---------------------------- *)
AuthDtoValid(dto) == dto.email # "" /\ dto.password # ""

(* ----------------------------- connections ---------------------------- *)
(* two clients send their edits at the same time *)
Connections == {"c1", "c2"}
Idle == [kind |-> "idle"]

(* ------------------------------- Init --------------------------------- *)
Init ==
  /\ users = <<>>
  /\ bookmarks = <<>>
  /\ nextBookmarkId = 1
  /\ userAt = NoToken
  /\ request = [op |-> "none"]
  /\ response = ReturnVoid
  /\ signedUp = {}
  /\ ledger = <<>>
  /\ now = 0
  /\ inflight = [c \in Connections |-> Idle]

(* ---------------------------- auth service ---------------------------- *)
(* PrismaUserRepository.create: the unique index on email raises P2002,    *)
(* which the repository translates                                         *)
create_unchecked(us, email, h) == Return(toEntity(NewUser(Len(us) + 1, email, h)))
create(us, email, h) ==
  IF EmailTaken(us, email, 0)
  THEN DuplicateEmailException(email)
  ELSE Return(toEntity(NewUser(Len(us) + 1, email, h)))

signupResult_unvalidated(us, dto, salt) ==
  LET created == create(us, dto.email, hash(dto.password, salt)) IN
  IF created.kind = "throw"
  THEN IF created.error = "DuplicateEmailException"
       THEN ForbiddenException(created.message)
       ELSE created
  ELSE Return([access_token |->
                 generateAccessToken(created.value.id, created.value.email)])
signupResult(us, dto, salt) ==
  IF ~AuthDtoValid(dto) THEN BadRequestException
  ELSE LET created == create(us, dto.email, hash(dto.password, salt)) IN
       IF created.kind = "throw"
       THEN IF created.error = "DuplicateEmailException"
            THEN ForbiddenException(created.message)
            ELSE created
       ELSE Return([access_token |->
                      generateAccessToken(created.value.id, created.value.email)])

(* AuthService.signin validates nothing itself *)
signinResult_namingCause(us, dto) ==
  LET id == findByEmail(us, dto.email) IN
  IF id = 0 THEN ForbiddenException(<<"User not found">>)
  ELSE IF ~verify(us[id].hash, dto.password)
  THEN ForbiddenException(<<"Credentials incorrect">>)
  ELSE Return([access_token |-> generateAccessToken(us[id].id, us[id].email)])
signinResult(us, dto) ==
  LET id == findByEmail(us, dto.email) IN
  IF id = 0 THEN ForbiddenException(<<"Credentials incorrect">>)
  ELSE IF ~verify(us[id].hash, dto.password)
  THEN ForbiddenException(<<"Credentials incorrect">>)
  ELSE Return([access_token |-> generateAccessToken(us[id].id, us[id].email)])

(* POST /auth/signin: the validation pipe rejects the body before the      *)
(* service is called                                                       *)
signinRoute(us, dto) ==
  IF ~AuthDtoValid(dto) THEN BadRequestException ELSE signinResult(us, dto)

signup(dto, salt) ==
  LET res == signupResult(users, dto, salt) IN
  /\ res.kind = "return" => Len(users) < MaxUsers
  /\ request' = [op |-> "signup", dto |-> dto]
  /\ response' = res
  /\ users' = IF res.kind = "return"
              THEN Append(users, create(users, dto.email, hash(dto.password, salt)).value)
              ELSE users
  /\ signedUp' = IF res.kind = "return"
                 THEN signedUp \cup {[email |-> dto.email, password |-> dto.password,
                                      id |-> Len(users) + 1]}
                 ELSE signedUp
  /\ UNCHANGED <<bookmarks, nextBookmarkId, userAt, ledger, now, inflight>>

(* `store`: whether the client keeps the token (stores('userAt', ...)) *)
signin(dto, store) ==
  LET res == signinRoute(users, dto) IN
  /\ request' = [op |-> "signin", dto |-> dto]
  /\ response' = res
  /\ userAt' = IF res.kind = "return" /\ store THEN res.value.access_token ELSE userAt
  /\ UNCHANGED <<users, bookmarks, nextBookmarkId, signedUp, ledger, now, inflight>>

(* ---------------------------- user service ---------------------------- *)
EditUserDtoFields == {"email", "firstName", "lastName"}
Whitelist_passThrough(body, fields) == body
Whitelist(body, fields) == Pick(body, fields)

(* PrismaUserRepository.update: applies the given fields to the row *)
update(us, id, data) ==
  IF Has(data, "email") /\ EmailTaken(us, data.email, id)
  THEN DuplicateEmailException(data.email)
  ELSE Return(toEntity([f \in DOMAIN us[id] |->
                          IF Has(data, f) THEN data[f] ELSE us[id][f]]))

editUser_firstAccount(us, userId, dto) ==
  IF userId \notin 1..Len(us) THEN NotFoundException(<<"User not found">>)
  ELSE update(us, 1, dto)
editUser(us, userId, dto) ==
  IF userId \notin 1..Len(us) THEN NotFoundException(<<"User not found">>)
  ELSE update(us, userId, dto)

(* GET /users/me: the controller returns the identity it is handed *)
getMe(token) ==
  LET req == Guarded(token) IN
  /\ request' = [op |-> "getMe", auth |-> token]
  /\ response' = IF ~Has(req, "user") THEN UnauthorizedException
                 ELSE Return(GetUser("", req))
  /\ UNCHANGED <<users, bookmarks, nextBookmarkId, userAt, signedUp, ledger, now, inflight>>

(* PATCH /users *)
editUserRoute(token, body) ==
  LET req == Guarded(token)
      dto == Whitelist(body, EditUserDtoFields)
      res == IF ~Has(req, "user") THEN UnauthorizedException
             ELSE editUser(users, GetUser("id", req), dto)
  IN /\ request' = [op |-> "editUser", auth |-> token, body |-> body]
     /\ response' = res
     /\ users' = IF res.kind = "return"
                 THEN [users EXCEPT ![res.value.id] = res.value]
                 ELSE users
     /\ UNCHANGED <<bookmarks, nextBookmarkId, userAt, signedUp, ledger, now, inflight>>

(* --------------------------- bookmark table --------------------------- *)
(* prisma.bookmark.*: `bms` maps the id of every stored row to the row *)
Matching(bms, id, userId) ==
  {k \in DOMAIN bms : bms[k].id = id /\ bms[k].userId = userId}

findMany_everyRow(bms, userId) == {bms[k] : k \in DOMAIN bms}
findMany(bms, userId) == {bms[k] : k \in {j \in DOMAIN bms : bms[j].userId = userId}}

findFirst_byIdOnly(bms, id, userId) ==
  IF id \in DOMAIN bms THEN Return(bms[id]) ELSE ReturnNull
findFirst(bms, id, userId) ==
  IF Matching(bms, id, userId) = {} THEN ReturnNull
  ELSE Return(bms[CHOOSE k \in Matching(bms, id, userId) : TRUE])

(* the row the database stores for create({data}) *)
createData(id, data) ==
  [id |-> id, title |-> data.title,
   description |-> IF Has(data, "description") THEN data.description ELSE Null,
   link |-> data.link, userId |-> data.userId]

(* the row after update({data}): the fields given replace the stored ones *)
updateData_replacing(row, data) ==
  [f \in DOMAIN row |->
     IF Has(data, f) THEN data[f] ELSE IF f = "description" THEN Null ELSE row[f]]
updateData(row, data) == [f \in DOMAIN row |-> IF Has(data, f) THEN data[f] ELSE row[f]]

Without_keeping(bms, id) == bms
Without(bms, id) == [k \in (DOMAIN bms) \ {id} |-> bms[k]]

(* -------------------------- bookmark service -------------------------- *)
CreateBookmarkDtoFields == {"title", "description", "link"}
EditBookmarkDtoFields == {"title", "description", "link"}

getBookmarks(bms, userId) == Return(findMany(bms, userId))

getBookmarkById(bms, userId, bookmarkId) == findFirst(bms, bookmarkId, userId)

(* data: { userId, ...dto } : a key of dto comes after userId *)
createBookmark(nextId, userId, dto) ==
  Return(createData(nextId, dto @@ [userId |-> userId]))

editBookmarkById_byIdOnly(bms, userId, bookmarkId, dto) ==
  IF bookmarkId \notin DOMAIN bms
  THEN PrismaClientKnownRequestError("P2025")
  ELSE Return(updateData(bms[bookmarkId], dto))
editBookmarkById(bms, userId, bookmarkId, dto) ==
  IF Matching(bms, bookmarkId, userId) = {}
  THEN PrismaClientKnownRequestError("P2025")
  ELSE Return(updateData(bms[bookmarkId], dto))

deleteBookmarkById(bms, userId, bookmarkId) ==
  IF Matching(bms, bookmarkId, userId) = {}
  THEN PrismaClientKnownRequestError("P2025")
  ELSE Return(bms[bookmarkId])

(* ------------------------------ history ------------------------------- *)
(* what the client asked to be written, taken from the bodies it sent *)
WrittenFields == {"title", "description", "link"}
Entry(creator, body) ==
  [createdBy |-> creator,
   title |-> body.title,
   description |-> IF Has(body, "description") THEN body.description ELSE Null,
   link |-> body.link]
Written(entry, body) ==
  [f \in DOMAIN entry |-> IF f \in WrittenFields /\ Has(body, f) THEN body[f] ELSE entry[f]]

(* --------------------------- bookmark routes -------------------------- *)
(* every route is behind the guard and takes the caller from GetUser('id') *)
getBookmarksRoute(token) ==
  LET req == Guarded(token) IN
  /\ request' = [op |-> "getBookmarks", auth |-> token]
  /\ response' = IF ~Has(req, "user") THEN UnauthorizedException
                 ELSE getBookmarks(bookmarks, GetUser("id", req))
  /\ UNCHANGED <<users, bookmarks, nextBookmarkId, userAt, signedUp, ledger, now, inflight>>

getBookmarkByIdRoute(token, id) ==
  LET req == Guarded(token) IN
  /\ request' = [op |-> "getBookmarkById", auth |-> token, id |-> id]
  /\ response' = IF ~Has(req, "user") THEN UnauthorizedException
                 ELSE getBookmarkById(bookmarks, GetUser("id", req), id)
  /\ UNCHANGED <<users, bookmarks, nextBookmarkId, userAt, signedUp, ledger, now, inflight>>

createBookmarkRoute(token, body) ==
  LET req == Guarded(token)
      dto == Whitelist(body, CreateBookmarkDtoFields)
      res == IF ~Has(req, "user") THEN UnauthorizedException
             ELSE createBookmark(nextBookmarkId, GetUser("id", req), dto)
  IN /\ res.kind = "return" => nextBookmarkId <= MaxBookmarks
     /\ request' = [op |-> "createBookmark", auth |-> token, body |-> body]
     /\ response' = res
     /\ IF res.kind = "return"
        THEN /\ bookmarks' = (res.value.id :> res.value) @@ bookmarks
             /\ nextBookmarkId' = nextBookmarkId + 1
        ELSE UNCHANGED <<bookmarks, nextBookmarkId>>
     /\ ledger' = IF res.kind = "return"
                  THEN (nextBookmarkId :> Entry(token.sub, body)) @@ ledger
                  ELSE ledger
     /\ UNCHANGED <<users, userAt, signedUp, now, inflight>>

editBookmarkByIdRoute(token, id, body) ==
  LET req == Guarded(token)
      dto == Whitelist(body, EditBookmarkDtoFields)
      res == IF ~Has(req, "user") THEN UnauthorizedException
             ELSE editBookmarkById(bookmarks, GetUser("id", req), id, dto)
  IN /\ request' = [op |-> "editBookmarkById", auth |-> token, id |-> id, body |-> body]
     /\ response' = res
     /\ bookmarks' = IF res.kind = "return"
                     THEN [bookmarks EXCEPT ![id] = res.value]
                     ELSE bookmarks
     /\ ledger' = IF res.kind = "return"
                  THEN [ledger EXCEPT ![id] = Written(@, body)]
                  ELSE ledger
     /\ UNCHANGED <<users, nextBookmarkId, userAt, signedUp, now, inflight>>

(* DELETE answers 204 with no body: the deleted row is not sent *)
deleteBookmarkByIdRoute(token, id) ==
  LET req == Guarded(token)
      res == IF ~Has(req, "user") THEN UnauthorizedException
             ELSE deleteBookmarkById(bookmarks, GetUser("id", req), id)
  IN /\ request' = [op |-> "deleteBookmarkById", auth |-> token, id |-> id]
     /\ response' = IF res.kind = "return" THEN ReturnVoid ELSE res
     /\ bookmarks' = IF res.kind = "return" THEN Without(bookmarks, id) ELSE bookmarks
     /\ ledger' = IF res.kind = "return"
                  THEN Without(ledger, id)
                  ELSE ledger
     /\ UNCHANGED <<users, nextBookmarkId, userAt, signedUp, now, inflight>>

(* ------------------------------ requests ------------------------------ *)
(* what a client can put in the Authorization header *)
AuthHeaders == {NoToken, userAt, ForgedToken}

OptField(name, values) == {<<>>} \cup {name :> v : v \in values}
EditUserBodies ==
  {e @@ f @@ l : e \in OptField("email", Emails \ {""}),
                 f \in OptField("firstName", FirstNames),
                 l \in OptField("lastName", LastNames)}
  \cup {[firstName |-> f, hash |-> hash("654321", s)] : f \in FirstNames, s \in Salts}
(* a body may carry a key the dto does not declare *)
CreateBookmarkBodies ==
  {[title |-> "Test bookmark", link |-> l] @@ d :
     l \in Links, d \in OptField("description", Descriptions)}
  \cup {[title |-> "Test bookmark", link |-> l, userId |-> u] : l \in Links, u \in UserIds}
EditBookmarkBodies ==
  {<<>>}
  \cup {[title |-> "Updated test bookmark"]}
  \cup {[description |-> d] : d \in Descriptions}
  \cup {[title |-> "Test bookmark", description |-> d, link |-> l] :
          d \in Descriptions, l \in Links}
  \cup {[title |-> "Updated test bookmark", userId |-> u] : u \in UserIds}
(* a request the guard rejects is sent with one body only *)
BodiesFor(token, bodies) ==
  IF verifyToken(token) THEN bodies ELSE {CHOOSE b \in bodies : TRUE}
IdsFor(token) == IF verifyToken(token) THEN BookmarkIds ELSE {1}

SignupWith(emails, passwords) ==
  \E e \in emails, p \in passwords, s \in Salts : signup([email |-> e, password |-> p], s)
SigninWith(emails, passwords, stores) ==
  \E e \in emails, p \in passwords :
    \E st \in (IF signinRoute(users, [email |-> e, password |-> p]).kind = "return"
               THEN stores ELSE {FALSE}) :
      signin([email |-> e, password |-> p], st)
Signup == SignupWith(Emails, SignupPasswords)
Signin == SigninWith(Emails, Passwords, BOOLEAN)
(* the accounts of the bookmark scenario register and sign in with valid payloads *)
Register == SignupWith(Emails \ {""}, SignupPasswords \ {""})
Login == SigninWith(Emails \ {""}, SignupPasswords \ {""}, {TRUE})
GetMeWith(headers) == \E t \in headers : getMe(t)
EditUserWith(headers, bodies) ==
  \E t \in headers : \E b \in BodiesFor(t, bodies) : editUserRoute(t, b)
GetBookmarksWith(headers) == \E t \in headers : getBookmarksRoute(t)
GetBookmarkByIdWith(headers) ==
  \E t \in headers : \E id \in IdsFor(t) : getBookmarkByIdRoute(t, id)
CreateBookmarkWith(headers, bodies) ==
  \E t \in headers : \E b \in BodiesFor(t, bodies) : createBookmarkRoute(t, b)
EditBookmarkByIdWith(headers, bodies) ==
  \E t \in headers : \E id \in IdsFor(t), b \in BodiesFor(t, bodies) :
    editBookmarkByIdRoute(t, id, b)
DeleteBookmarkByIdWith(headers) ==
  \E t \in headers : \E id \in IdsFor(t) : deleteBookmarkByIdRoute(t, id)

GetMe == GetMeWith(AuthHeaders)
EditUser == EditUserWith(AuthHeaders, EditUserBodies)
GetBookmarks == GetBookmarksWith(AuthHeaders)
GetBookmarkById == GetBookmarkByIdWith(AuthHeaders)
CreateBookmark == CreateBookmarkWith(AuthHeaders, CreateBookmarkBodies)
EditBookmarkById == EditBookmarkByIdWith(AuthHeaders, EditBookmarkBodies)
DeleteBookmarkById == DeleteBookmarkByIdWith(AuthHeaders)

(* the account routes *)
NextAuth == Signup \/ Signin \/ GetMe \/ EditUser
SpecAuth == Init /\ [][NextAuth]_vars

(* sign-up, sign-in and the bookmark routes *)
NextBookmark ==
  \/ Register \/ Login
  \/ GetBookmarks \/ GetBookmarkById \/ CreateBookmark
  \/ EditBookmarkById \/ DeleteBookmarkById
SpecBookmark == Init /\ [][NextBookmark]_vars

(* every route *)
Next ==
  \/ Signup \/ Signin \/ GetMe \/ EditUser
  \/ GetBookmarks \/ GetBookmarkById \/ CreateBookmark
  \/ EditBookmarkById \/ DeleteBookmarkById
Spec == Init /\ [][Next]_vars

(* every protected route, each called with the token the client keeps and  *)
(* with every header the guard turns down, and with the bodies of the      *)
(* end-to-end scenario                                                     *)
RejectedHeaders == {NoToken, ForgedToken, ExpiredToken, MalformedToken}
RouteHeaders == {userAt} \cup RejectedHeaders
GET_users_me == GetMeWith(RouteHeaders)
PATCH_users == EditUserWith(RouteHeaders, {[firstName |-> "Test"]})
GET_bookmarks == GetBookmarksWith(RouteHeaders)
GET_bookmarks_id == GetBookmarkByIdWith(RouteHeaders)
POST_bookmarks ==
  CreateBookmarkWith(RouteHeaders, {[title |-> "Test bookmark", link |-> "https://test.com"]})
PATCH_bookmarks_id == EditBookmarkByIdWith(RouteHeaders, {[title |-> "Updated test bookmark"]})
DELETE_bookmarks_id == DeleteBookmarkByIdWith(RouteHeaders)
NextRoutes ==
  \/ Register \/ Login
  \/ GET_users_me \/ PATCH_users
  \/ GET_bookmarks \/ GET_bookmarks_id \/ POST_bookmarks
  \/ PATCH_bookmarks_id \/ DELETE_bookmarks_id
SpecRoutes == Init /\ [][NextRoutes]_vars

(* the life of a token: accounts sign up, sign in again (keeping the new    *)
(* token or not), move to another email and call GET /users/me, while the  *)
(* clock advances                                                          *)
ClockSteps == {JWT_ACCESS_EXPIRES_IN \div 3}
Tick ==
  /\ \E d \in ClockSteps : now + d <= MaxTime /\ now' = now + d
  /\ UNCHANGED <<users, bookmarks, nextBookmarkId, userAt, request, response,
                 signedUp, ledger, inflight>>
Relogin == SigninWith(Emails \ {""}, SignupPasswords \ {""}, BOOLEAN)
ChangeEmail == EditUserWith(AuthHeaders, {[email |-> e] : e \in Emails \ {""}})
NextToken == Register \/ Relogin \/ ChangeEmail \/ GetMe \/ Tick
SpecToken == Init /\ [][NextToken]_vars

(* the identity extractor on its own: it is handed every request, with and *)
(* without an identity, and every claim name                               *)
ClaimNames == {"", "id", "sub", "email", "firstName", "lastName", "hash"}
Identities ==
  {[id |-> i, email |-> e] @@ f @@ l :
     i \in UserIds, e \in Emails \ {""},
     f \in OptField("firstName", FirstNames), l \in OptField("lastName", LastNames)}
HttpRequests == {<<>>} \cup {[user |-> u] : u \in Identities}
Extract ==
  \E data \in ClaimNames, req \in HttpRequests :
    /\ request' = [op |-> "GetUser", data |-> data, req |-> req]
    /\ response' = Return(GetUser(data, req))
    /\ UNCHANGED <<users, bookmarks, nextBookmarkId, userAt, signedUp, ledger,
                   now, inflight>>
NextGetUser == Extract
SpecGetUser == Init /\ [][NextGetUser]_vars

(* two edits of one bookmark in flight at once: one account signs up,      *)
(* signs in and creates a bookmark; each connection then sends one PATCH   *)
(* for it.  A PATCH passes the guard and the validation pipe when it is    *)
(* received; its prisma.bookmark.update is one statement, which the        *)
(* database runs at some later point, in either order.                     *)
ScenarioEmail == "test@test.com"
ScenarioBookmark == [title |-> "Test bookmark", link |-> "https://test.com"]
ConcurrentEditBodies ==
  {[title |-> "Updated test bookmark"],
   [description |-> "Test description"],
   [title |-> "Test bookmark", description |-> "Test description",
    link |-> "https://test.com"]}
RegisterOne == SignupWith({ScenarioEmail}, SignupPasswords \ {""})
LoginOne == SigninWith({ScenarioEmail}, SignupPasswords \ {""}, {TRUE})
CreateOne == nextBookmarkId = 1 /\ CreateBookmarkWith({userAt}, {ScenarioBookmark})

BeginEdit(c) ==
  \E id \in BookmarkIds, body \in ConcurrentEditBodies :
    LET req == Guarded(userAt) IN
    /\ inflight[c] = Idle
    /\ Has(req, "user")
    /\ Matching(bookmarks, id, GetUser("id", req)) # {}
    /\ inflight' = [inflight EXCEPT ![c] =
                      [kind |-> "pending", auth |-> userAt,
                       userId |-> GetUser("id", req), id |-> id, body |-> body,
                       dto |-> Whitelist(body, EditBookmarkDtoFields)]]
    /\ UNCHANGED <<users, bookmarks, nextBookmarkId, userAt, request, response,
                   signedUp, ledger, now>>

CommitEdit(c) ==
  LET p == inflight[c] IN
  /\ p.kind = "pending"
  /\ LET res == editBookmarkById(bookmarks, p.userId, p.id, p.dto) IN
     /\ request' = [op |-> "editBookmarkById", auth |-> p.auth, id |-> p.id,
                    body |-> p.body]
     /\ response' = res
     /\ bookmarks' = IF res.kind = "return"
                     THEN [bookmarks EXCEPT ![p.id] = res.value]
                     ELSE bookmarks
     /\ ledger' = IF res.kind = "return"
                  THEN [ledger EXCEPT ![p.id] = Written(@, p.body)]
                  ELSE ledger
     /\ inflight' = [inflight EXCEPT ![c] =
                       [kind |-> "done", id |-> p.id, dto |-> p.dto,
                        order |-> 1 + Cardinality({o \in Connections :
                                                    inflight[o].kind = "done"}),
                        overlapped |-> \E o \in Connections :
                                         inflight[o].kind = "pending" /\ o # c
                                         /\ inflight[o].id = p.id]]
  /\ UNCHANGED <<users, nextBookmarkId, userAt, signedUp, now>>

Begin == \E c \in Connections : BeginEdit(c)
Commit == \E c \in Connections : CommitEdit(c)
NextConcurrent == RegisterOne \/ LoginOne \/ CreateOne \/ Begin \/ Commit
SpecConcurrent == Init /\ [][NextConcurrent]_vars

(* ============================== claims ================================ *)
Authenticated == Has(request, "auth") /\ verifyToken(request.auth)
Caller == request.auth.sub
OnBookmark(ops) == request.op \in ops /\ Authenticated

(* C1: a read of bookmark k by an account that does not own k yields the   *)
(* lookup's not-found result (null), which carries no field of k, and it   *)
(* is the very result of reading an id that is not stored at all.          *)
C1_ForeignBookmarkReadsAsNotFound ==
  (OnBookmark({"getBookmarkById"})
     /\ (request.id \notin DOMAIN bookmarks \/ bookmarks[request.id].userId # Caller))
  => response = ReturnNull

C1_Witness ==
  /\ OnBookmark({"getBookmarkById"})
  /\ request.id \in DOMAIN bookmarks
  /\ bookmarks[request.id].userId # Caller
  /\ response.kind = "null"

(* C2: an edit or delete issued by account B leaves every bookmark that    *)
(* B does not own stored and unchanged (title, description, link, owner).  *)
C2_ForeignBookmarkIsUnmodifiable ==
  [][(request'.op \in {"editBookmarkById", "deleteBookmarkById"}
        /\ verifyToken(request'.auth))
     => \A k \in DOMAIN bookmarks :
          bookmarks[k].userId # request'.auth.sub
          => (k \in DOMAIN bookmarks' /\ bookmarks'[k] = bookmarks[k])]_vars

C2_Witness ==
  /\ OnBookmark({"editBookmarkById"})
  /\ request.id \in DOMAIN bookmarks
  /\ bookmarks[request.id].userId # Caller
  /\ Has(request.body, "title")
  /\ request.body.title # bookmarks[request.id].title
  /\ response.kind = "throw"

(* C3: an edit or delete that matches no row of the caller (absent id or   *)
(* another account's bookmark) fails with NotFoundFailure, status 404.     *)
C3_MissIsNotFoundFailure ==
  (OnBookmark({"editBookmarkById", "deleteBookmarkById"}) /\ response.kind = "throw")
  => (response.error = "NotFoundException" /\ response.status = 404)

(* C4: the list returned to account A holds exactly the bookmarks A        *)
(* created and has not deleted, as stored, and none of another account.    *)
C4_ListIsOwnLiveBookmarks ==
  OnBookmark({"getBookmarks"})
  => /\ response.kind = "return"
     /\ {r.id : r \in response.value}
          = {k \in DOMAIN ledger : ledger[k].createdBy = Caller}
     /\ Cardinality(response.value)
          = Cardinality({k \in DOMAIN ledger : ledger[k].createdBy = Caller})
     /\ \A r \in response.value :
          r.userId = Caller /\ r.id \in DOMAIN bookmarks /\ r = bookmarks[r.id]

C4_Witness ==
  /\ OnBookmark({"getBookmarks"})
  /\ response.kind = "return"
  /\ Cardinality(response.value) = 1
  /\ \E k \in DOMAIN bookmarks : bookmarks[k].userId # Caller

(* C10: reading bookmark k as its owner returns the title, description and *)
(* link last written to k (by its create, or field by field by the later   *)
(* successful edits), and create and edit answer with the written values.  *)
C10_ReadReturnsLastWritten ==
  /\ \A k \in DOMAIN ledger :
       LET got == getBookmarkById(bookmarks, ledger[k].createdBy, k)
       IN got.kind = "return"
          /\ \A f \in WrittenFields : got.value[f] = ledger[k][f]
  /\ (OnBookmark({"createBookmark", "editBookmarkById"}) /\ response.kind = "return")
     => /\ response.value.id \in DOMAIN ledger
        /\ \A f \in WrittenFields : response.value[f] = ledger[response.value.id][f]

C10_Witness ==
  /\ OnBookmark({"editBookmarkById"})
  /\ response.kind = "return"
  /\ ~Has(request.body, "description")
  /\ response.value.title = "Updated test bookmark"
  /\ response.value.description = "Test description"
  /\ getBookmarkById(bookmarks, Caller, request.id) = Return(response.value)

Holds(email) == \E i \in 1..Len(users) : users[i].email = email

(* C5 as claimed: for every email, sign-up succeeds at most once.          *)
C5_SignupSucceedsOncePerEmail ==
  \A e \in Emails : Cardinality({r \in signedUp : r.email = e}) <= 1

(* C5 as amended: a sign-up with non-empty email and password fails with   *)
(* 403 and leaves the accounts (and their hashes) unchanged while an       *)
(* account holds the email, and otherwise creates the account with that    *)
(* email and a hash of the password and returns a token for it.            *)
C5_SignupFailsWhileEmailHeld ==
  [][(request'.op = "signup" /\ AuthDtoValid(request'.dto))
     => IF Holds(request'.dto.email)
        THEN /\ response'.kind = "throw"
             /\ response'.error = "ForbiddenException"
             /\ response'.status = 403
             /\ users' = users
        ELSE /\ response'.kind = "return"
             /\ Len(users') = Len(users) + 1
             /\ SubSeq(users', 1, Len(users)) = users
             /\ users'[Len(users')].email = request'.dto.email
             /\ verify(users'[Len(users')].hash, request'.dto.password)
             /\ response'.value.access_token.sub = Len(users')]_vars

C5_Witness ==
  /\ request.op = "signup"
  /\ Holds(request.dto.email)
  /\ response.kind = "throw"
  /\ response.status = 403
  /\ \E r \in signedUp : r.email = request.dto.email /\ users[r.id].email = r.email

(* C6: a sign-in with an email no account has and a sign-in with a wrong   *)
(* password get one and the same failure (kind, status 403, message), and  *)
(* no token.                                                               *)
C6_SigninFailuresAreIdentical ==
  (request.op = "signin" /\ AuthDtoValid(request.dto)
     /\ ~\E i \in 1..Len(users) :
           users[i].email = request.dto.email
           /\ users[i].hash.digest = <<users[i].hash.salt, request.dto.password>>)
  => response = [kind |-> "throw", error |-> "ForbiddenException", status |-> 403,
                 message |-> <<"Credentials incorrect">>]

C6_Witness ==
  /\ request.op = "signin"
  /\ AuthDtoValid(request.dto)
  /\ Holds(request.dto.email)
  /\ response.kind = "throw"
  /\ response.status = 403

C6_WitnessUnknownEmail ==
  /\ request.op = "signin"
  /\ AuthDtoValid(request.dto)
  /\ ~Holds(request.dto.email)
  /\ Len(users) > 0
  /\ response.kind = "throw"
  /\ response.status = 403

C8_EmailsStayUnique ==
  /\ [](\A i, j \in 1..Len(users) : i # j => users[i].email # users[j].email)
  /\ [][(request'.op = "editUser" /\ verifyToken(request'.auth)
           /\ Has(request'.body, "email")
           /\ \E j \in 1..Len(users) :
                j # request'.auth.sub /\ users[j].email = request'.body.email)
        => (response'.kind = "throw" /\ users' = users)]_vars

C8_Witness ==
  /\ request.op = "editUser"
  /\ Authenticated
  /\ Has(request.body, "email")
  /\ \E j \in 1..Len(users) : j # Caller /\ users[j].email = request.body.email
  /\ response.kind = "throw"

(* C9: no response carries a password hash: not the token of sign-up and   *)
(* sign-in, not the account of GET /users/me and PATCH /users, not a       *)
(* bookmark.                                                               *)
C9_NoHashInAnyResponse ==
  response.kind = "return"
  => CASE request.op = "getBookmarks" -> \A r \in response.value : ~Has(r, "hash")
       [] request.op \in {"signup", "signin"} ->
            ~Has(response.value, "hash") /\ ~Has(response.value.access_token, "hash")
       [] OTHER -> ~Has(response.value, "hash")

(* C11: a delete of bookmark k by its owner answers with no content and    *)
(* removes k alone, every other stored bookmark staying as it was; an id   *)
(* that was handed out and is no longer stored stays out of the table, so  *)
(* that from then on every read of it by id finds nothing and no list      *)
(* carries it, for any account.                                            *)
Deleted(bms, nextId) == {k \in 1..(nextId - 1) : k \notin DOMAIN bms}
C11_DeletedStaysGone ==
  [][/\ (request'.op = "deleteBookmarkById"
          /\ verifyToken(request'.auth)
          /\ request'.id \in DOMAIN bookmarks
          /\ bookmarks[request'.id].userId = request'.auth.sub)
         => /\ response' = ReturnVoid
            /\ request'.id \notin DOMAIN bookmarks'
            /\ \A j \in (DOMAIN bookmarks) \ {request'.id} :
                 j \in DOMAIN bookmarks' /\ bookmarks'[j] = bookmarks[j]
     /\ \A k \in Deleted(bookmarks, nextBookmarkId) :
          /\ k \in Deleted(bookmarks', nextBookmarkId')
          /\ \A u \in UserIds :
               /\ getBookmarkById(bookmarks', u, k) = ReturnNull
               /\ \A row \in getBookmarks(bookmarks', u).value : row.id # k]_vars

C11_Witness ==
  /\ OnBookmark({"getBookmarkById"})
  /\ request.id \in Deleted(bookmarks, nextBookmarkId)
  /\ response = ReturnNull
  /\ bookmarks # <<>>

(* C12: a sign-up or sign-in whose email or password is empty is answered  *)
(* 400 Bad Request; it creates no account, changes no stored row and       *)
(* issues no token.                                                        *)
EmptyCredentials(dto) == dto.email = "" \/ dto.password = ""
C12_EmptyCredentialsRejected ==
  [][(request'.op \in {"signup", "signin"} /\ EmptyCredentials(request'.dto))
     => /\ response'.kind = "throw"
        /\ response'.status = 400
        /\ users' = users
        /\ userAt' = userAt
        /\ signedUp' = signedUp]_vars

(* a sign-in with the email of an account and an empty password *)
C12_Witness ==
  /\ request.op = "signin"
  /\ request.dto.password = ""
  /\ \E i \in 1..Len(users) : users[i].email = request.dto.email
  /\ response = BadRequestException

C12_WitnessSignup ==
  /\ request.op = "signup"
  /\ request.dto.email = ""
  /\ request.dto.password # ""
  /\ response = BadRequestException

(* C13: a request to a protected route whose header carries no token, or a *)
(* token that does not verify (wrong signature, expired, unparsable), is   *)
(* answered 401 Unauthorized; the request the handler would see has no     *)
(* identity to extract, and the stored accounts and bookmarks stay as      *)
(* they were.                                                              *)
ProtectedOps ==
  {"getMe", "editUser", "getBookmarks", "getBookmarkById", "createBookmark",
   "editBookmarkById", "deleteBookmarkById"}
C13_UnverifiedRequestIsTurnedDown ==
  [][(request'.op \in ProtectedOps /\ ~verifyToken(request'.auth))
     => /\ response' = UnauthorizedException
        /\ GetUser("id", Guarded(request'.auth)) = Null
        /\ users' = users
        /\ bookmarks' = bookmarks
        /\ nextBookmarkId' = nextBookmarkId]_vars

(* an expired token of an account that owns a bookmark, on DELETE *)
C13_Witness ==
  /\ request.op = "deleteBookmarkById"
  /\ request.auth = ExpiredToken
  /\ request.id \in DOMAIN bookmarks
  /\ bookmarks[request.id].userId = ExpiredToken.sub
  /\ response = UnauthorizedException

(* C14: the token the client was issued at time iat verifies to its claims *)
(* at every time up to iat + lifetime, whatever sign-ins and profile edits *)
(* happened since, and fails as Expired at every later time; a token       *)
(* signed with another secret always fails.  GET /users/me shows it: it    *)
(* returns the token's claims up to the expiry and 401 after it.           *)
Signed(token) == token.kind = "jwt" /\ token.secret = "JWT_ACCESS_SECRET"
C14_TokenValidUntilExpiry ==
  /\ [](userAt.kind = "jwt"
         => verifyOutcome(userAt) =
              IF now <= userAt.iat + JWT_ACCESS_EXPIRES_IN THEN "claims" ELSE "Expired")
  /\ [](verifyOutcome(ForgedToken) = "InvalidSignature")
  /\ [][(request'.op = "getMe" /\ now' = now /\ request'.auth.kind = "jwt")
        => response' =
             IF Signed(request'.auth)
                /\ now <= request'.auth.iat + JWT_ACCESS_EXPIRES_IN
             THEN Return([id |-> request'.auth.sub, email |-> request'.auth.email])
             ELSE UnauthorizedException]_vars

(* the kept token is presented after its expiry, by an account that has   *)
(* changed its email since the token was issued                           *)
C14_Witness ==
  /\ request.op = "getMe"
  /\ request.auth = userAt
  /\ Signed(userAt)
  /\ now > userAt.iat + JWT_ACCESS_EXPIRES_IN
  /\ users[userAt.sub].email # userAt.email
  /\ response = UnauthorizedException

(* the kept token is accepted at the last minute of its life, after a     *)
(* later sign-in whose token was not kept and a change of email           *)
C14_WitnessLastMinute ==
  /\ request.op = "getMe"
  /\ request.auth = userAt
  /\ Signed(userAt)
  /\ userAt.iat > 0
  /\ now = userAt.iat + JWT_ACCESS_EXPIRES_IN
  /\ users[userAt.sub].email # userAt.email
  /\ response = Return([id |-> userAt.sub, email |-> userAt.email])

C15_WitnessEdit ==
  /\ OnBookmark({"editBookmarkById"})
  /\ Has(request.body, "userId")
  /\ request.body.userId # Caller
  /\ response.kind = "return"
  /\ bookmarks[request.id].userId = Caller

(* C16: a profile edit that succeeds sets, on the caller's account, exactly *)
(* the fields email, firstName, lastName that the body carries and returns  *)
(* the row as stored; the fields the body does not carry, the id and the    *)
(* password hash keep their values, every other account is unchanged and    *)
(* no account is added; an edit that fails changes nothing.                 *)
C16_EditSelfTouchesPatchedFieldsOnly ==
  [][(request'.op = "editUser" /\ verifyToken(request'.auth))
     => IF response'.kind = "return"
        THEN LET id == request'.auth.sub
                 patch == request'.body
             IN /\ Len(users') = Len(users)
                /\ \A i \in 1..Len(users) : i # id => users'[i] = users[i]
                /\ \A f \in DOMAIN users[id] :
                     users'[id][f] = IF f \in EditUserDtoFields /\ Has(patch, f)
                                     THEN patch[f]
                                     ELSE users[id][f]
                /\ response'.value = users'[id]
        ELSE users' = users]_vars

(* the second account sets its first name with a body that also carries a *)
(* hash, while the first account has a profile of its own                 *)
C16_Witness ==
  /\ request.op = "editUser"
  /\ Authenticated
  /\ Caller = 2
  /\ Has(request.body, "hash")
  /\ response.kind = "return"
  /\ users[2].firstName = request.body.firstName
  /\ users[2].hash # request.body.hash
  /\ users[1].lastName # Null

(* C17: for a request that carries an identity GetUser returns the whole   *)
(* identity when it is given no claim name and the value of the named      *)
(* claim when it is given one (undefined for a claim the identity does not *)
(* have); for a request that carries no identity it returns null whatever  *)
(* the claim name.                                                         *)
C17_GetUserExtractsIdentity ==
  request.op = "GetUser"
  => LET req == request.req
         data == request.data
     IN /\ response.kind = "return"
        /\ IF ~Has(req, "user") THEN response.value = Null
           ELSE IF data = "" THEN response.value = req.user
           ELSE IF data \in DOMAIN req.user THEN response.value = req.user[data]
           ELSE response.value = "undefined"

(* a claim is asked of a request that has no identity *)
C17_Witness ==
  /\ request.op = "GetUser"
  /\ request.data = "id"
  /\ ~Has(request.req, "user")
  /\ response = Return(Null)

(* one claim is asked of an identity that has several *)
C17_WitnessNamedClaim ==
  /\ request.op = "GetUser"
  /\ request.data = "firstName"
  /\ Has(request.req, "user")
  /\ DOMAIN request.req.user = {"id", "email", "firstName", "lastName"}
  /\ response = Return("Test")

(* C18: of two edits of one bookmark by its owner that are in flight at    *)
(* the same time, each can be committed whatever the state of the other    *)
(* and each is answered with the updated row; after any number of them has *)
(* committed every field of the bookmark holds the value of the edit that  *)
(* committed last among those whose body set the field, and the value the  *)
(* bookmark was created with when none set it.                             *)
Writers(k, f) ==
  {c \in Connections : inflight[c].kind = "done" /\ inflight[c].id = k
                         /\ Has(inflight[c].dto, f)}
LastWriter(k, f) ==
  CHOOSE c \in Writers(k, f) :
    \A o \in Writers(k, f) : inflight[o].order <= inflight[c].order
AsCreated(k) == createBookmark(k, 1, ScenarioBookmark).value
C18_LastCommittedEditWins ==
  /\ request.op = "editBookmarkById" => response.kind = "return"
  /\ \A c \in Connections : inflight[c].kind = "pending" => ENABLED CommitEdit(c)
  /\ \A k \in DOMAIN bookmarks : \A f \in WrittenFields :
       bookmarks[k][f] = IF Writers(k, f) = {}
                         THEN AsCreated(k)[f]
                         ELSE inflight[LastWriter(k, f)].dto[f]

(* both edits were in flight together and both have committed: the one     *)
(* that set the title alone first, the one that set every field last       *)
C18_Witness ==
  /\ \A c \in Connections : inflight[c].kind = "done"
  /\ \E c \in Connections :
       /\ inflight[c].order = 1
       /\ inflight[c].overlapped
       /\ inflight[c].dto = [title |-> "Updated test bookmark"]
  /\ \E c \in Connections :
       /\ inflight[c].order = 2
       /\ DOMAIN inflight[c].dto = {"title", "description", "link"}
  /\ bookmarks[1].title = "Test bookmark"
  /\ bookmarks[1].description = "Test description"
  /\ response.kind = "return"

(* the two edits set different fields and both values are stored *)
C18_WitnessDisjointFields ==
  /\ \A c \in Connections : inflight[c].kind = "done"
  /\ \E c \in Connections : inflight[c].overlapped
  /\ \E c \in Connections : inflight[c].dto = [title |-> "Updated test bookmark"]
  /\ \E c \in Connections : inflight[c].dto = [description |-> "Test description"]
  /\ bookmarks[1].title = "Updated test bookmark"
  /\ bookmarks[1].description = "Test description"

====
